---- MODULE Spec2Model ----
(***************************************************************************)
(* Model of video_sheet_generator.py: the timestamp sampler, the media     *)
(* probe, the sheet composer, the single-item pipeline, the batch          *)
(* orchestrator and main.                                                  *)
(*                                                                         *)
(* Python floats are modelled as exact rationals <<num, den>> with den > 0.*)
(* A call that can raise returns a record with a field raised.             *)
(***************************************************************************)
EXTENDS Integers, Sequences, FiniteSets, TLC

VARIABLES
    ts_duration,   \* generate_timestamps: argument duration
    ts_total,      \* generate_timestamps: argument total
    ts_result,     \* generate_timestamps: NotCalled, or the outcome of the call
    gv_probe,      \* get_video_info: what ffprobe and the file system answer
    gv_result,     \* get_video_info: NotCalled, or the outcome of the call
    bs_thumbnails, \* build_sheet: argument thumbnails
    bs_result,     \* build_sheet: NotCalled, or the outcome of the call
    fs_sheets,     \* file system: for each sheet path, the file there (if any)
    tasks,         \* the process_video calls: arguments, position, locals, result
    rr_path,       \* repeated runs: the video path given to every run
    rr_runs,       \* repeated runs: the finished runs, oldest first
    m_pc,          \* main: where the main thread is
    m_argv,        \* main: what sys.argv[1] names (kind "none": no argument)
    dir_listing,   \* file system: os.listdir of the directory, in its order
    temp_dir_exists, \* file system: TEMP_DIR is there
    cleanup_calls, \* main: the number of calls of cleanup()
    exit_code,     \* main: the value main returned or exited with
    video_files,   \* process_folder: the list find_video_files returned
    successful,    \* process_folder: counter
    failed,        \* process_folder: counter
    collected      \* process_folder: the futures as_completed has yielded

samplerVars == <<ts_duration, ts_total, ts_result>>
probeVars == <<gv_probe, gv_result>>
sheetVars == <<bs_thumbnails, bs_result>>
pipeVars == <<fs_sheets, tasks>>
rerunVars == <<rr_path, rr_runs>>
mainVars == <<m_pc, m_argv, dir_listing, temp_dir_exists, cleanup_calls, exit_code,
              video_files, successful, failed, collected>>

vars == <<samplerVars, probeVars, sheetVars, pipeVars, rerunVars, mainVars>>

\* the value of a result variable before the call is made
NotCalled == [called |-> FALSE]

-----------------------------------------------------------------------------
(* Rational arithmetic standing for Python float arithmetic.               *)

Rat(n, d) == <<n, d>>
Zero == Rat(0, 1)
RatLess(a, b) == a[1] * b[2] < b[1] * a[2]
RatLeq(a, b) == a[1] * b[2] <= b[1] * a[2]
RatEq(a, b) == a[1] * b[2] = b[1] * a[2]
RatSub(a, b) == Rat(a[1] * b[2] - b[1] * a[2], a[2] * b[2])
\* r / k for an integer k # 0
RatDivInt(r, k) == IF k > 0 THEN Rat(r[1], r[2] * k) ELSE Rat(-r[1], r[2] * (-k))
\* r * k for an integer k
RatMulInt(r, k) == Rat(r[1] * k, r[2])
\* int(r): truncation towards zero
RatInt(r) == IF r[1] >= 0 THEN r[1] \div r[2] ELSE 0 - ((0 - r[1]) \div r[2])

-----------------------------------------------------------------------------
(* Bounds of the sampler's inputs.                                         *)

MaxDurNum == 6
MaxDurDen == 2
MaxCount == 4

Durations == {Rat(n, d) : n \in -2..MaxDurNum, d \in 1..MaxDurDen}
Counts == (0 - MaxCount)..MaxCount

-----------------------------------------------------------------------------
(* generate_timestamps(duration, total)                                    *)

\* [0] * total : a non-positive total gives the empty list
Repeat(x, n) == [i \in 1..(IF n > 0 THEN n ELSE 0) |-> x]

\* generate_timestamps with gap = duration / (total + 1): the padding at the
\* end left out
MutGap_generate_timestamps(duration, total) ==
    IF RatLeq(duration, Zero)
    THEN [called |-> TRUE, raised |-> FALSE, value |-> Repeat(Zero, total)]
    ELSE IF total + 1 = 0
         THEN [called |-> TRUE, raised |-> TRUE, value |-> <<>>]
         ELSE LET gap == RatDivInt(duration, total + 1)
              IN [called |-> TRUE, raised |-> FALSE,
                  value |-> [p \in 1..(IF total > 0 THEN total ELSE 0) |-> RatMulInt(gap, p)]]

\* list index i of the source is position i + 1 here
generate_timestamps(duration, total) ==
    IF RatLeq(duration, Zero)
    THEN [called |-> TRUE, raised |-> FALSE, value |-> Repeat(Zero, total)]
    ELSE IF total + 2 = 0
         THEN [called |-> TRUE, raised |-> TRUE, value |-> <<>>]      \* ZeroDivisionError at gap
         ELSE LET gap == RatDivInt(duration, total + 2)
              IN [called |-> TRUE, raised |-> FALSE,
                  value |-> [p \in 1..(IF total > 0 THEN total ELSE 0) |-> RatMulInt(gap, p)]]

SamplerIdle ==
    /\ ts_duration = Zero
    /\ ts_total = 0
    /\ ts_result = NotCalled

ProbeIdle ==
    /\ gv_probe = [tool_missing |-> FALSE]
    /\ gv_result = NotCalled

SheetIdle ==
    /\ bs_thumbnails = <<>>
    /\ bs_result = NotCalled

PipeIdle ==
    /\ fs_sheets = <<>>
    /\ tasks = <<>>

RerunIdle ==
    /\ rr_path = <<"", "">>
    /\ rr_runs = <<>>

MainIdle ==
    /\ m_pc = "idle"
    /\ m_argv = [kind |-> "none", path |-> <<"", "">>]
    /\ dir_listing = <<>>
    /\ temp_dir_exists = FALSE
    /\ cleanup_calls = 0
    /\ exit_code = 0
    /\ video_files = <<>>
    /\ successful = 0
    /\ failed = 0
    /\ collected = {}

SamplerInit ==
    /\ ts_duration \in Durations
    /\ ts_total \in Counts
    /\ ts_result = NotCalled
    /\ ProbeIdle
    /\ SheetIdle
    /\ PipeIdle
    /\ RerunIdle
    /\ MainIdle

CallGenerateTimestamps ==
    /\ ~ts_result.called
    /\ ts_result' = generate_timestamps(ts_duration, ts_total)
    /\ UNCHANGED <<ts_duration, ts_total, probeVars, sheetVars, pipeVars, rerunVars, mainVars>>

SamplerNext == CallGenerateTimestamps

SpecSampler == SamplerInit /\ [][SamplerNext]_vars

SamplerCalled == ts_result.called

\* C6: generate_timestamps is total: whatever the duration and the integer
\* count, the call returns without raising; a count <= 0 gives the empty
\* sequence and a duration <= 0 gives exactly count copies of 0.
C6_SamplerTotal ==
    SamplerCalled =>
        /\ ~ts_result.raised
        /\ ts_total <= 0 => ts_result.value = <<>>
        /\ (RatLeq(ts_duration, Zero) /\ ts_total >= 0) =>
               /\ Len(ts_result.value) = ts_total
               /\ \A p \in 1..ts_total : ts_result.value[p] = Zero

-----------------------------------------------------------------------------
(* get_video_info(video_path)                                              *)

\* The text a sub-query prints on stdout.
Text(kind, val) == [kind |-> kind, val |-> val]
EmptyText == Text("empty", 0)       \* ""
BlankText == Text("blank", 0)       \* white space only, e.g. "\n"
JunkText == Text("junk", 0)         \* text that is no number, e.g. "N/A"
NumText(v) == Text("num", v)        \* the decimal text of v
NameText(v) == Text("name", v)      \* a codec name

\* str.strip()
Strip(t) == IF t.kind = "blank" THEN EmptyText ELSE t
\* truth value of a str
NonEmpty(t) == t.kind # "empty"
\* float(text): [raised |-> TRUE] is the ValueError
ParseFloat(t) ==
    IF t.kind = "num" THEN [raised |-> FALSE, value |-> t.val]
    ELSE [raised |-> TRUE, value |-> Zero]

\* One run of ffprobe: its exit status and its stdout.
Query(exit, out) == [exit |-> exit, out |-> out]
DurationQueries ==
    {Query("nonzero", EmptyText)} \cup
    {Query("ok", t) : t \in {EmptyText, BlankText, JunkText,
                             NumText(Zero), NumText(Rat(9, 2)), NumText(Rat(54, 1))}}
DimensionQueries ==
    {Query("nonzero", EmptyText)} \cup
    {Query("ok", t) : t \in {EmptyText, BlankText, NumText(640)}}
CodecQueries ==
    {Query("nonzero", EmptyText)} \cup
    {Query("ok", t) : t \in {EmptyText, NameText("h264")}}
\* os.path.getsize: the size in bytes, or OSError
SizeAnswers == {[raised |-> TRUE, bytes |-> 0],
                [raised |-> FALSE, bytes |-> 0],
                [raised |-> FALSE, bytes |-> 12939428]}

ProbeAnswers ==
    [tool_missing : BOOLEAN,
     duration : DurationQueries,
     width : DimensionQueries,
     height : DimensionQueries,
     codec : CodecQueries,
     size : SizeAnswers]

UnknownText == NameText("Unknown")
Resolution(w, h) == [known |-> TRUE, w |-> w, h |-> h]
UnknownResolution == [known |-> FALSE, w |-> EmptyText, h |-> EmptyText]

\* f"{size_mb:.2f} MB": hundredths of a megabyte, rounded
SizeLabel(bytes) == (bytes * 100 + 524288) \div 1048576

NoInfo == [called |-> TRUE, none |-> TRUE]
Info(duration, resolution, size, codec) ==
    [called |-> TRUE, none |-> FALSE, duration |-> duration,
     resolution |-> resolution, size |-> size, codec |-> codec]

\* subprocess.run(..., check=True): CalledProcessError on a non-zero exit
RunFails(q) == q.exit # "ok"

get_video_info(a) ==
    IF a.tool_missing THEN NoInfo                       \* FileNotFoundError
    ELSE IF RunFails(a.duration) THEN NoInfo
    ELSE LET dtext == Strip(a.duration.out)
             parsed == ParseFloat(dtext)
         IN IF NonEmpty(dtext) /\ parsed.raised THEN NoInfo    \* ValueError
            ELSE IF RunFails(a.width) THEN NoInfo
            ELSE IF RunFails(a.height) THEN NoInfo
            ELSE IF RunFails(a.codec) THEN NoInfo
            ELSE IF a.size.raised THEN NoInfo                  \* OSError
            ELSE LET duration == IF NonEmpty(dtext) THEN parsed.value ELSE Zero
                     width == Strip(a.width.out)
                     height == Strip(a.height.out)
                     codec == Strip(a.codec.out)
                     resolution == IF NonEmpty(width) /\ NonEmpty(height)
                                   THEN Resolution(width, height)
                                   ELSE UnknownResolution
                 IN Info(duration, resolution, SizeLabel(a.size.bytes),
                         IF NonEmpty(codec) THEN codec ELSE UnknownText)

ProbeInit ==
    /\ gv_probe \in ProbeAnswers
    /\ gv_result = NotCalled
    /\ SamplerIdle
    /\ SheetIdle
    /\ PipeIdle
    /\ RerunIdle
    /\ MainIdle

CallGetVideoInfo ==
    /\ ~gv_result.called
    /\ gv_result' = get_video_info(gv_probe)
    /\ UNCHANGED <<gv_probe, samplerVars, sheetVars, pipeVars, rerunVars, mainVars>>

ProbeNext == CallGetVideoInfo

SpecProbe == ProbeInit /\ [][ProbeNext]_vars

\* ffprobe could not be executed for query q: it is missing or exited non-zero
NotExecuted(a, q) == a.tool_missing \/ q.exit # "ok"
\* query q ran and printed nothing usable: no text, or (duration) no number
NoUsableText(q) == q.exit = "ok" /\ ~NonEmpty(Strip(q.out))
NoUsableNumber(q) ==
    q.exit = "ok" /\ (~NonEmpty(Strip(q.out)) \/ ParseFloat(Strip(q.out)).raised)

\* C4 (as claimed): a sub-query that yields nothing usable degrades only its
\* own field and the probe still returns metadata: no width or no height gives
\* resolution "Unknown", no codec gives codec "Unknown", empty or unparseable
\* duration text gives duration 0; the probe returns None only when ffprobe
\* cannot be executed (the file's size being readable).
C4_Claimed ==
    (gv_result.called /\ ~gv_probe.size.raised) =>
        /\ gv_result.none =>
              \E q \in {gv_probe.duration, gv_probe.width, gv_probe.height, gv_probe.codec} :
                  NotExecuted(gv_probe, q)
        /\ ~gv_result.none =>
              /\ (NoUsableText(gv_probe.width) \/ NoUsableText(gv_probe.height))
                     => gv_result.resolution = UnknownResolution
              /\ NoUsableText(gv_probe.codec) => gv_result.codec = UnknownText
              /\ NoUsableNumber(gv_probe.duration) => gv_result.duration = Zero

-----------------------------------------------------------------------------
(* build_sheet(video_path, thumbnails, video_info)                         *)

SHEET_WIDTH == 1920
GRID_COLUMNS == 5
GRID_ROWS == 5
MARGIN == 5
FONT_SIZE == 22

\* format_timestamp(seconds): <<h, m, s>> of "HH:MM:SS"
format_timestamp(seconds) ==
    LET t == RatInt(seconds)
        m0 == t \div 60
    IN <<m0 \div 60, m0 % 60, t % 60>>

\* A thumbnail as extract_thumbnails lists it: the file thumb_<i>.jpg and the
\* instant it was asked for.  usable says whether Image.open, resize and
\* paste work on the file; w, h are the frame's own size.
Thumb(usable, w, h, ts) == [usable |-> usable, w |-> w, h |-> h, ts |-> ts]

NoSheet == [called |-> TRUE, none |-> TRUE]

Min(a, b) == IF a < b THEN a ELSE b
Max(a, b) == IF a > b THEN a ELSE b

\* sheet.paste(img, (x, y)) clips img to the sheet: the part of the
\* thumbnail's box that lies on a sheet of the given height
VisibleCols(x, w) == Max(0, Min(x + w, SHEET_WIDTH) - Max(x, 0))
VisibleRows(y, h, sheet_height) == Max(0, Min(y + h, sheet_height) - Max(y, 0))

thumb_width == (SHEET_WIDTH - (GRID_COLUMNS + 1) * MARGIN) \div GRID_COLUMNS
info_header_height == (FONT_SIZE * 5) + 20
\* y_offset after the five header lines and the extra spacing
grid_top == MARGIN + 5 * (FONT_SIZE + 2) + 8

\* the paste of thumbnail idx (0-based) of the loop "Place thumbnails in grid"
Placement(idx, thumb, thumb_height, sheet_height) ==
    LET row == idx \div GRID_COLUMNS
        col == idx % GRID_COLUMNS
        x == MARGIN + col * (thumb_width + MARGIN)
        y == grid_top + row * (thumb_height + MARGIN)
    IN [idx |-> idx, row |-> row, col |-> col, x |-> x, y |-> y,
        cols |-> VisibleCols(x, thumb_width),
        rows |-> VisibleRows(y, thumb_height, sheet_height),
        label |-> format_timestamp(thumb.ts)]

build_sheet(thumbnails) ==
    IF Len(thumbnails) = 0 THEN NoSheet
    ELSE IF ~thumbnails[1].usable THEN NoSheet       \* Image.open of the sample raises
    ELSE LET sample_img == thumbnails[1]
             thumb_height == (thumb_width * sample_img.h) \div sample_img.w
             sheet_height == (GRID_ROWS * (thumb_height + MARGIN)) + MARGIN
                                 + info_header_height
         IN [called |-> TRUE, none |-> FALSE,
             width |-> SHEET_WIDTH, height |-> sheet_height,
             thumb_height |-> thumb_height,
             pasted |-> {Placement(p - 1, thumbnails[p], thumb_height, sheet_height) :
                             p \in {q \in 1..Len(thumbnails) : thumbnails[q].usable}}]

\* Bounds of the composer's inputs.
MaxThumbs == 27
MaxBad == 1

FrameSizes == {<<640, 360>>, <<640, 480>>}

RECURSIVE BadSets(_, _)
\* the sets of at most k indices below n
BadSets(n, k) ==
    IF k = 0 THEN {{}}
    ELSE BadSets(n, k - 1) \cup {S \cup {i} : S \in BadSets(n, k - 1), i \in 0..(n - 1)}

SheetInit ==
    /\ \E n \in 0..MaxThumbs : \E bad \in BadSets(n, MaxBad) : \E sz \in FrameSizes :
           bs_thumbnails = [p \in 1..n |-> Thumb((p - 1) \notin bad, sz[1], sz[2],
                                                 Rat(733 * p, 2))]
    /\ bs_result = NotCalled
    /\ SamplerIdle
    /\ ProbeIdle
    /\ PipeIdle
    /\ RerunIdle
    /\ MainIdle

CallBuildSheet ==
    /\ ~bs_result.called
    /\ bs_result' = build_sheet(bs_thumbnails)
    /\ UNCHANGED <<bs_thumbnails, samplerVars, probeVars, pipeVars, rerunVars, mainVars>>

SheetNext == CallBuildSheet

SpecSheet == SheetInit /\ [][SheetNext]_vars

GridSlots == GRID_ROWS * GRID_COLUMNS
\* the thumbnails (by index) of which some pixel is on the composed sheet
OnSheet(sheet) == {pl.idx : pl \in {q \in sheet.pasted : q.rows > 0 /\ q.cols > 0}}
AllUsable(thumbnails) == \A p \in 1..Len(thumbnails) : thumbnails[p].usable

\* C5 (as claimed): for a non-empty thumbnail sequence (here: one that holds
\* a usable thumbnail), a thumbnail at any index (index 0 included) that fails
\* to open, resize or paste is skipped and composition goes on: a sheet is
\* returned and it holds every usable thumbnail that has a grid slot.
C5_Claimed ==
    (bs_result.called /\ \E p \in 1..Len(bs_thumbnails) : bs_thumbnails[p].usable) =>
        /\ ~bs_result.none
        /\ \A p \in 1..Len(bs_thumbnails) :
               (bs_thumbnails[p].usable /\ p - 1 < GridSlots)
                   => (p - 1) \in OnSheet(bs_result)

\* C8 (as claimed): with every thumbnail usable, no thumbnail fails the
\* composition, N >= 1 succeeds, the thumbnails on the sheet are exactly those
\* of index i < min(N, rows*columns), thumbnail i in slot (i div columns,
\* i mod columns); none of index >= rows*columns is on the sheet, and
\* rows*columns - N slots stay blank when N < rows*columns.
C8_Claimed ==
    (bs_result.called /\ AllUsable(bs_thumbnails)) =>
        LET N == Len(bs_thumbnails)
        IN /\ N = 0 => bs_result.none
           /\ N >= 1 =>
                /\ ~bs_result.none
                /\ OnSheet(bs_result) = 0..(Min(N, GridSlots) - 1)
                /\ \A pl \in bs_result.pasted :
                       pl.idx < GridSlots =>
                           /\ pl.row = pl.idx \div GRID_COLUMNS
                           /\ pl.col = pl.idx % GRID_COLUMNS
                /\ N < GridSlots =>
                       GridSlots - Cardinality(OnSheet(bs_result)) = GridSlots - N

-----------------------------------------------------------------------------
(* Paths.  A file name is <<root, ext>>: what os.path.splitext splits it   *)
(* into.  All files live in the one directory that is processed.           *)

VIDEO_EXTENSIONS == {".mp4", ".mkv", ".avi", ".mov", ".wmv", ".flv", ".webm",
                     ".m4v", ".mpg", ".mpeg", ".3gp"}

\* str.lower() on the extensions used here
Lower(ext) ==
    CASE ext = ".MKV" -> ".mkv"
      [] ext = ".MP4" -> ".mp4"
      [] OTHER -> ext

splitext(path) == <<path[1], path[2]>>

\* os.path.splitext(video_path)[0] + "_sheet.jpg"
output_path(video_path) == <<splitext(video_path)[1], "_sheet.jpg">>

Roots == {"a", "b"}
VideoFiles == {<<r, e>> : r \in Roots, e \in {".mp4", ".MKV"}}
SheetPaths == {<<r, "_sheet.jpg">> : r \in Roots}

NoFile == [exists |-> FALSE, src |-> <<"", "">>, complete |-> FALSE]
\* a sheet that was there before the program started
OldSheet == [exists |-> TRUE, src |-> <<"", "">>, complete |-> TRUE]
\* the sheet saved by the run on video_path
SavedSheet(video_path) == [exists |-> TRUE, src |-> video_path, complete |-> TRUE]
\* what a failed save may leave behind
PartialSheet(video_path) == [exists |-> TRUE, src |-> video_path, complete |-> FALSE]

FileSystems == [SheetPaths -> {NoFile, OldSheet}]

\* an existence test that never finds the sheet
MutNever_exists(fs, p) == FALSE
\* os.path.exists(p) on a sheet path
exists(fs, p) == p \in DOMAIN fs /\ fs[p].exists

-----------------------------------------------------------------------------
(* extract_thumbnails(video_path, timestamps, temp_dir)                    *)

\* What ffmpeg does for the timestamp of index i (0-based): "ok" writes the
\* frame, "error" exits non-zero, "nofile" exits 0 without a readable frame.
AllFrames == [i \in 0..(GridSlots - 1) |-> "ok"]
NoFrames == [i \in 0..(GridSlots - 1) |-> "error"]
FirstFrameUnreadable == [i \in 0..(GridSlots - 1) |-> IF i = 0 THEN "nofile" ELSE "ok"]
FirstFrameFails == [i \in 0..(GridSlots - 1) |-> IF i = 0 THEN "error" ELSE "ok"]
FfmpegBehaviours == {AllFrames, NoFrames, FirstFrameUnreadable, FirstFrameFails}

RECURSIVE ExtractFrom(_, _, _)
\* the loop of extract_thumbnails from position p on
ExtractFrom(timestamps, ffmpeg, p) ==
    IF p > Len(timestamps) THEN <<>>
    ELSE IF ffmpeg[p - 1] = "error"
         THEN ExtractFrom(timestamps, ffmpeg, p + 1)        \* CalledProcessError: pass
         ELSE <<Thumb(ffmpeg[p - 1] = "ok", 640, 360, timestamps[p])>>
                  \o ExtractFrom(timestamps, ffmpeg, p + 1)

extract_thumbnails(timestamps, ffmpeg) == ExtractFrom(timestamps, ffmpeg, 1)

-----------------------------------------------------------------------------
(* process_video(video_path)                                               *)

\* The answers of ffprobe a run may meet.
HealthyProbe ==
    [tool_missing |-> FALSE,
     duration |-> Query("ok", NumText(Rat(54, 1))),
     width |-> Query("ok", NumText(640)),
     height |-> Query("ok", NumText(640)),
     codec |-> Query("ok", NameText("h264")),
     size |-> [raised |-> FALSE, bytes |-> 12939428]]
NoDurationProbe == [HealthyProbe EXCEPT !.duration = Query("ok", EmptyText)]
FailingProbe == [HealthyProbe EXCEPT !.width = Query("nonzero", EmptyText)]
PipelineProbes == {HealthyProbe, NoDurationProbe, FailingProbe}

\* sheet.save(output_path, "JPEG", ...): written, or an exception that leaves
\* nothing or a partial file behind
SaveOutcomes == {"saved", "failed", "failed_partial"}

NoLocals == [info |-> NotCalled]

\* A call of process_video.  calls lists the stages the run has called,
\* composed tells whether build_sheet returned a sheet to it.
NewTask(video_path, pc) ==
    [path |-> video_path, pc |-> pc, outcome |-> "", reason |-> "", calls |-> <<>>,
     composed |-> FALSE, locals |-> NoLocals]

\* the return statements of process_video; outcome Skipped and Success both
\* return True, Failure returns False
Return(task, outcome, reason) ==
    [task EXCEPT !.pc = "returned", !.outcome = outcome, !.reason = reason,
                 !.locals = NoLocals]
Returned(task) == task.pc = "returned"
ReturnValue(task) == task.outcome \in {"Skipped", "Success"}

\* the result of build_sheet taken for a sheet without a test
MutAlways_SheetBuilt(sheet) == TRUE
\* "if sheet:" of process_video
SheetBuilt(sheet) == ~sheet.none

\* lines 249-257: derive the output path, skip if the sheet exists
PVCheckExists(t) ==
    /\ tasks[t].pc = "start"
    /\ tasks' = [tasks EXCEPT ![t] =
           IF exists(fs_sheets, output_path(@.path))
           THEN Return(@, "Skipped", "")
           ELSE [@ EXCEPT !.pc = "probe"]]
    /\ UNCHANGED fs_sheets

\* lines 259-263: get_video_info
PVProbe(t) ==
    /\ tasks[t].pc = "probe"
    /\ \E answers \in PipelineProbes :
           LET video_info == get_video_info(answers)
               called == [tasks[t] EXCEPT !.calls = Append(@, "probe")]
           IN tasks' = [tasks EXCEPT ![t] =
                  IF video_info.none
                  THEN Return(called, "Failure", "probe")
                  ELSE [called EXCEPT !.pc = "extract", !.locals.info = video_info]]
    /\ UNCHANGED fs_sheets

\* The durations a successful probe of PipelineProbes reports.
ProbedDurations ==
    {get_video_info(a).duration : a \in {b \in PipelineProbes : ~get_video_info(b).none}}

\* lines 266-269: thumbs, as a function of the probed duration and of what
\* ffmpeg does (a function, so that each value is computed once)
ThumbnailsFor ==
    [d \in ProbedDurations, f \in FfmpegBehaviours |->
        extract_thumbnails(generate_timestamps(d, GRID_COLUMNS * GRID_ROWS).value, f)]

\* line 275: sheet = build_sheet(video_path, thumbs, video_info)
SheetFor ==
    [d \in ProbedDurations, f \in FfmpegBehaviours |-> build_sheet(ThumbnailsFor[d, f])]

\* lines 265-277 and 282-284: generate_timestamps, extract_thumbnails into the
\* run's own temporary directory, build_sheet and the test of its result
PVExtractAndBuild(t) ==
    /\ tasks[t].pc = "extract"
    /\ \E ffmpeg \in FfmpegBehaviours :
       \E thumbs \in {ThumbnailsFor[tasks[t].locals.info.duration, ffmpeg]} :
       \E sheet \in {SheetFor[tasks[t].locals.info.duration, ffmpeg]} :
           LET extracted == [tasks[t] EXCEPT !.calls = Append(@, "extract")]
               built == [extracted EXCEPT !.calls = Append(@, "compose"),
                                          !.composed = ~sheet.none]
           IN tasks' = [tasks EXCEPT ![t] =
                  IF Len(thumbs) = 0
                  THEN Return(extracted, "Failure", "extraction")
                  ELSE IF SheetBuilt(sheet)
                       THEN [built EXCEPT !.pc = "save"]
                       ELSE Return(built, "Failure", "composition")]
    /\ UNCHANGED fs_sheets

\* lines 279-281 and 286-288: sheet.save, or the exception it raises
PVSave(t) ==
    /\ tasks[t].pc = "save"
    /\ \E how \in SaveOutcomes :
           LET out == output_path(tasks[t].path)
               called == [tasks[t] EXCEPT !.calls = Append(@, "save")]
           IN CASE how = "saved" ->
                    /\ fs_sheets' = [p \in DOMAIN fs_sheets \cup {out} |->
                                        IF p = out THEN SavedSheet(tasks[t].path)
                                        ELSE fs_sheets[p]]
                    /\ tasks' = [tasks EXCEPT ![t] = Return(called, "Success", "")]
                [] how = "failed" ->
                    /\ UNCHANGED fs_sheets
                    /\ tasks' = [tasks EXCEPT ![t] = Return(called, "Failure", "write")]
                [] how = "failed_partial" ->
                    /\ fs_sheets' = [p \in DOMAIN fs_sheets \cup {out} |->
                                        IF p = out THEN PartialSheet(tasks[t].path)
                                        ELSE fs_sheets[p]]
                    /\ tasks' = [tasks EXCEPT ![t] = Return(called, "Failure", "write")]

\* one step of the process_video call t
PVStep(t) == PVCheckExists(t) \/ PVProbe(t) \/ PVExtractAndBuild(t) \/ PVSave(t)

-----------------------------------------------------------------------------
(* process_video called again and again on one path, one call after the    *)
(* other, nothing else touching the directory.                             *)

MaxRuns == 2

notRerunVars == <<samplerVars, probeVars, sheetVars, mainVars>>

RerunInit ==
    /\ rr_path \in VideoFiles
    /\ rr_runs = <<>>
    /\ fs_sheets \in FileSystems
    /\ tasks = <<>>
    /\ SamplerIdle
    /\ ProbeIdle
    /\ SheetIdle
    /\ MainIdle

RerunCall ==
    /\ tasks = <<>>
    /\ Len(rr_runs) < MaxRuns
    /\ tasks' = <<NewTask(rr_path, "start")>>
    /\ UNCHANGED <<fs_sheets, rerunVars>>
    /\ UNCHANGED notRerunVars

RerunStep ==
    /\ tasks # <<>>
    /\ PVStep(1)
    /\ UNCHANGED rerunVars
    /\ UNCHANGED notRerunVars

RerunReturn ==
    /\ tasks # <<>>
    /\ Returned(tasks[1])
    /\ rr_runs' = Append(rr_runs, tasks[1])
    /\ tasks' = <<>>
    /\ UNCHANGED <<fs_sheets, rr_path>>
    /\ UNCHANGED notRerunVars

RerunNext == RerunCall \/ RerunStep \/ RerunReturn

SpecRerun == RerunInit /\ [][RerunNext]_vars

\* C1 (as claimed): whatever the input, the second of two runs in sequence
\* returns Skipped and calls neither the probe, the extractor nor the composer.
C1_Claimed ==
    Len(rr_runs) >= 2 =>
        /\ rr_runs[2].outcome = "Skipped"
        /\ rr_runs[2].calls = <<>>

\* C1 (amended): a run that follows a run which returned Success or Skipped
\* returns Skipped and calls neither the probe, the extractor, the composer
\* nor the save.
C1_RerunSkips ==
    \A k \in 1..(Len(rr_runs) - 1) :
        rr_runs[k].outcome \in {"Success", "Skipped"} =>
            /\ rr_runs[k + 1].outcome = "Skipped"
            /\ rr_runs[k + 1].calls = <<>>

\* a second run has followed a run that wrote the sheet
C1_Witness ==
    /\ Len(rr_runs) >= 2
    /\ rr_runs[1].outcome = "Success"
    /\ rr_runs[2].outcome = "Skipped"

-----------------------------------------------------------------------------
(* find_video_files(folder_path)                                           *)

Entry(path, isfile) == [path |-> path, isfile |-> isfile]

\* The names a directory may hold, in the order os.listdir gives them.
DirUniverse ==
    <<Entry(<<"a", ".mp4">>, TRUE), Entry(<<"b", ".MKV">>, TRUE),
      Entry(<<"a", ".MKV">>, TRUE), Entry(<<"b", ".mp4">>, TRUE),
      Entry(<<"a", ".txt">>, TRUE), Entry(<<"b", ".avi">>, FALSE)>>

MaxFiles == 3

RECURSIVE Pick(_, _, _)
\* the entries of seq at the positions in S, from position p on
Pick(seq, S, p) ==
    IF p > Len(seq) THEN <<>>
    ELSE (IF p \in S THEN <<seq[p]>> ELSE <<>>) \o Pick(seq, S, p + 1)

RECURSIVE IndexSets(_, _)
\* the sets of at most k positions of 1..n
IndexSets(n, k) ==
    IF k = 0 THEN {{}}
    ELSE IndexSets(n, k - 1) \cup {S \cup {i} : S \in IndexSets(n, k - 1), i \in 1..n}

Listings == {Pick(DirUniverse, S, 1) : S \in IndexSets(Len(DirUniverse), MaxFiles)}

RECURSIVE FindFrom(_, _)
\* the loop of find_video_files from position p on
FindFrom(listing, p) ==
    IF p > Len(listing) THEN <<>>
    ELSE LET file == listing[p]
             ext == Lower(splitext(file.path)[2])
         IN (IF file.isfile /\ ext \in VIDEO_EXTENSIONS THEN <<file.path>> ELSE <<>>)
                \o FindFrom(listing, p + 1)

find_video_files(listing) == FindFrom(listing, 1)

-----------------------------------------------------------------------------
(* cleanup(), main() and process_folder(folder_path)                       *)

MAX_WORKERS == 4

Arg(kind, path) == [kind |-> kind, path |-> path]
Arguments ==
    {Arg("none", <<"", "">>), Arg("missing", <<"a", ".mp4">>), Arg("dir", <<"", "">>),
     Arg("file", <<"a", ".mp4">>), Arg("file", <<"b", ".MKV">>), Arg("file", <<"a", ".txt">>)}

MainInit ==
    /\ m_pc = "setup"
    /\ m_argv \in Arguments
    /\ dir_listing \in (IF m_argv.kind = "dir" THEN Listings ELSE {<<>>})
    /\ fs_sheets \in FileSystems
    /\ temp_dir_exists = TRUE            \* TEMP_DIR = tempfile.mkdtemp()
    /\ cleanup_calls = 0
    /\ exit_code = 0
    /\ video_files = <<>>
    /\ successful = 0
    /\ failed = 0
    /\ collected = {}
    /\ tasks = <<>>
    /\ SamplerIdle
    /\ ProbeIdle
    /\ SheetIdle
    /\ RerunIdle

batchVars == <<video_files, successful, failed, collected>>
notMainVars == <<samplerVars, probeVars, sheetVars, rerunVars>>

\* main returns or the process exits with the given code, cleanup() not called
Leave(code) ==
    /\ m_pc' = "exited"
    /\ exit_code' = code
    /\ UNCHANGED <<temp_dir_exists, cleanup_calls>>

\* cleanup() is called, then main returns the given code
CleanupAndLeave(code) ==
    /\ m_pc' = "exited"
    /\ exit_code' = code
    /\ temp_dir_exists' = FALSE          \* shutil.rmtree(TEMP_DIR)
    /\ cleanup_calls' = cleanup_calls + 1

\* line 356: extract_embedded_files(), which ends in sys.exit(1) when a copy fails
MainSetup ==
    /\ m_pc = "setup"
    /\ \E copied \in BOOLEAN :
           IF copied
           THEN m_pc' = "args" /\ UNCHANGED <<temp_dir_exists, cleanup_calls, exit_code>>
           ELSE Leave(1)
    /\ UNCHANGED <<m_argv, dir_listing, batchVars, pipeVars>>
    /\ UNCHANGED notMainVars

\* lines 358-383: the tests on sys.argv and on the path
MainDispatch ==
    /\ m_pc = "args"
    /\ CASE m_argv.kind = "none" -> Leave(1) /\ UNCHANGED tasks
         [] m_argv.kind = "missing" -> Leave(1) /\ UNCHANGED tasks
         [] m_argv.kind = "dir" ->
                /\ m_pc' = "scan"
                /\ UNCHANGED <<temp_dir_exists, cleanup_calls, exit_code, tasks>>
         [] m_argv.kind = "file" ->
                IF Lower(splitext(m_argv.path)[2]) \in VIDEO_EXTENSIONS
                THEN /\ m_pc' = "single"
                     /\ tasks' = <<NewTask(m_argv.path, "start")>>
                     /\ UNCHANGED <<temp_dir_exists, cleanup_calls, exit_code>>
                ELSE Leave(1) /\ UNCHANGED tasks
    /\ UNCHANGED <<m_argv, dir_listing, batchVars, fs_sheets>>
    /\ UNCHANGED notMainVars

\* lines 388-392: a statement of the try block raises (print on a console that
\* cannot take the text, for one); the handler calls cleanup() and returns 1
MainExcept ==
    /\ m_pc \in {"args", "scan"}
    /\ CleanupAndLeave(1)
    /\ UNCHANGED <<m_argv, dir_listing, batchVars, pipeVars>>
    /\ UNCHANGED notMainVars

\* lines 376-380: process_video(path) of the single file, step by step
SingleStep ==
    /\ m_pc = "single"
    /\ PVStep(1)
    /\ UNCHANGED <<mainVars>>
    /\ UNCHANGED notMainVars

SingleDone ==
    /\ m_pc = "single"
    /\ Returned(tasks[1])
    /\ IF ReturnValue(tasks[1])
       THEN m_pc' = "cleanup" /\ UNCHANGED <<temp_dir_exists, cleanup_calls, exit_code>>
       ELSE Leave(1)
    /\ UNCHANGED <<m_argv, dir_listing, batchVars, pipeVars>>
    /\ UNCHANGED notMainVars

\* lines 308-328: find_video_files, then every video submitted to the pool
FolderScan ==
    /\ m_pc = "scan"
    /\ LET found == find_video_files(dir_listing)
       IN /\ video_files' = found
          /\ IF Len(found) = 0
             THEN m_pc' = "cleanup" /\ UNCHANGED <<tasks, successful, failed>>
             ELSE /\ m_pc' = "batch"
                  /\ tasks' = [i \in 1..Len(found) |-> NewTask(found[i], "queued")]
                  /\ successful' = 0
                  /\ failed' = 0
    /\ UNCHANGED <<m_argv, dir_listing, temp_dir_exists, cleanup_calls, exit_code,
                   collected, fs_sheets>>
    /\ UNCHANGED notMainVars

Running == {t \in 1..Len(tasks) : tasks[t].pc \notin {"queued", "returned"}}
Queued == {t \in 1..Len(tasks) : tasks[t].pc = "queued"}

\* ThreadPoolExecutor(max_workers=MAX_WORKERS): an idle worker takes the
\* oldest submitted call that has not started
PoolStart ==
    /\ m_pc = "batch"
    /\ Queued # {}
    /\ Cardinality(Running) < MAX_WORKERS
    /\ LET t == CHOOSE q \in Queued : \A r \in Queued : q <= r
       IN tasks' = [tasks EXCEPT ![t].pc = "start"]
    /\ UNCHANGED <<mainVars, fs_sheets>>
    /\ UNCHANGED notMainVars

\* a worker thread takes one step of its process_video call
WorkerStep ==
    /\ m_pc = "batch"
    /\ \E t \in Running : PVStep(t)
    /\ UNCHANGED <<mainVars>>
    /\ UNCHANGED notMainVars

\* every result counted as a success
MutAllSuccessful_CountResult(result, counters) ==
    [successful |-> counters.successful + 1, failed |-> counters.failed]
\* lines 334-341: the counters after future.result()
CountResult(result, counters) ==
    IF result
    THEN [successful |-> counters.successful + 1, failed |-> counters.failed]
    ELSE [successful |-> counters.successful, failed |-> counters.failed + 1]

\* lines 331-341: as_completed yields a finished future, the loop body counts it
Collect ==
    /\ m_pc = "batch"
    /\ \E t \in 1..Len(tasks) :
           /\ Returned(tasks[t])
           /\ t \notin collected
           /\ collected' = collected \cup {t}
           /\ LET counters == CountResult(ReturnValue(tasks[t]),
                                          [successful |-> successful, failed |-> failed])
              IN successful' = counters.successful /\ failed' = counters.failed
    /\ UNCHANGED <<m_pc, m_argv, dir_listing, temp_dir_exists, cleanup_calls, exit_code,
                   video_files, pipeVars>>
    /\ UNCHANGED notMainVars

\* lines 343-350: every future has been yielded; the totals are printed
FolderDone ==
    /\ m_pc = "batch"
    /\ collected = 1..Len(tasks)
    /\ m_pc' = "cleanup"
    /\ UNCHANGED <<m_argv, dir_listing, temp_dir_exists, cleanup_calls, exit_code,
                   batchVars, pipeVars>>
    /\ UNCHANGED notMainVars

\* lines 385-386 and 394: cleanup(), return 0
MainCleanup ==
    /\ m_pc = "cleanup"
    /\ CleanupAndLeave(0)
    /\ UNCHANGED <<m_argv, dir_listing, batchVars, pipeVars>>
    /\ UNCHANGED notMainVars

MainNext ==
    \/ MainSetup \/ MainDispatch \/ MainExcept \/ SingleStep \/ SingleDone
    \/ FolderScan \/ PoolStart \/ WorkerStep \/ Collect \/ FolderDone \/ MainCleanup

SpecMain == MainInit /\ [][MainNext]_vars

\* process_folder has finished its batch
BatchFinished == m_argv.kind = "dir" /\ m_pc \in {"cleanup", "exited"} /\ Len(video_files) > 0

TasksWith(value) == {t \in 1..Len(tasks) : Returned(tasks[t]) /\ ReturnValue(tasks[t]) = value}

Stages == <<"probe", "extract", "compose", "save">>
StagePrefix(n) == SubSeq(Stages, 1, n)
FileAt(fs, p) == IF p \in DOMAIN fs THEN fs[p] ELSE NoFile

\* what C9 says of one run in one state; alone tells whether no other run
\* shares the directory with it
RunInOrder(run, file, alone) ==
    /\ \E n \in 0..Len(Stages) : run.calls = StagePrefix(n)
    /\ (run.pc = "save" \/ Len(run.calls) = 4) => run.composed
    /\ (alone /\ run.pc \in {"probe", "extract", "save"}) => ~file.exists
    /\ (Returned(run) /\ run.outcome = "Failure") =>
          /\ run.reason = "probe" => run.calls = StagePrefix(1)
          /\ run.reason = "extraction" => run.calls = StagePrefix(2)
          /\ run.reason = "composition" => run.calls = StagePrefix(3)
          /\ run.reason = "write" => run.calls = StagePrefix(4)
          /\ (alone /\ run.reason # "write") => ~file.exists
    /\ (Returned(run) /\ run.outcome = "Success") =>
          /\ run.calls = StagePrefix(4)
          /\ file.exists
          /\ alone => file = SavedSheet(run.path)
    /\ (Returned(run) /\ run.outcome = "Skipped") => run.calls = <<>>

\* a step that changes the file system is the save of a run whose sheet the
\* composer has returned, and it changes that run's output path only
WriteIsSave ==
    fs_sheets' # fs_sheets =>
        \E t \in 1..Len(tasks) :
            /\ tasks[t].pc = "save"
            /\ tasks[t].composed
            /\ tasks[t].calls = StagePrefix(3)
            /\ tasks'[t].calls = StagePrefix(4)
            /\ \A p \in DOMAIN fs_sheets' :
                   p # output_path(tasks[t].path) => FileAt(fs_sheets, p) = fs_sheets'[p]

\* C9: in every run of process_video, alone or in a batch, the output path is
\* written only by the save that follows a composed sheet; each stage is
\* called only after the stage before it succeeded; a run that fails at the
\* probe, the extraction or the composition has not written (and, no other
\* run being there, the path is absent); a run returns Success only after the
\* save, the sheet being at the derived path.
C9_WriteAfterCompose ==
    /\ [](\A t \in 1..Len(tasks) :
             RunInOrder(tasks[t], FileAt(fs_sheets, output_path(tasks[t].path)),
                        Len(tasks) = 1))
    /\ [][WriteIsSave]_vars

\* in a batch, one run has failed in the composer and another has saved its sheet
C9_Witness ==
    /\ m_pc = "batch"
    /\ \E t \in 1..Len(tasks) :
           /\ Returned(tasks[t])
           /\ tasks[t].reason = "composition"
           /\ ~exists(fs_sheets, output_path(tasks[t].path))
    /\ \E t \in 1..Len(tasks) : tasks[t].outcome = "Success"

\* the runs that have tested the existence of their output path
Started == {t \in 1..Len(tasks) : tasks[t].pc \notin {"queued", "start"}}

\* C3 (as claimed): in a batch no two runs for distinct discovered files test
\* or write the same output sheet path, so that every input counted
\* successful has, at its output path, a sheet produced from that input (or
\* the sheet that was there before the batch).
C3_Claimed ==
    m_argv.kind = "dir" =>
        /\ \A t1, t2 \in Started :
               tasks[t1].path # tasks[t2].path
                   => output_path(tasks[t1].path) # output_path(tasks[t2].path)
        /\ \A t \in collected :
               ReturnValue(tasks[t]) =>
                   fs_sheets[output_path(tasks[t].path)]
                       \in {SavedSheet(tasks[t].path), OldSheet}

\* C10 (as claimed): whenever main has ended, by return 0, return 1 or
\* sys.exit, cleanup() has been called and TEMP_DIR is removed.
C10_Claimed ==
    m_pc = "exited" => (cleanup_calls >= 1 /\ ~temp_dir_exists)

====
